---- MODULE Spec2Model ----
(***************************************************************************)
(* A model of examples/performances/plot_benchmarks_ot_3D.py:              *)
(*   - sinkhorn_loop (lines 81-114), the log-domain Sinkhorn loop with its *)
(*     two cost backends ("pytorch" dense, "keops" lazy);                  *)
(*   - full_benchmark / full_statistics and the three top-level calls      *)
(*     (lines 143-178, 214-221, 322-334).                                  *)
(*                                                                         *)
(* NUMBERS.  The code works on floats in the log domain.  The model works  *)
(* in exact real arithmetic on the numbers that are rational "in the exp   *)
(* domain":                                                                *)
(*   - a signed rational (a weight, a cost) is a pair <<n, d>>, d > 0, in  *)
(*     lowest terms;                                                       *)
(*   - a log-domain value v (loga_i, -C_ij/eps, F_i, G_j before the final  *)
(*     scaling) is written as the pair <<n, d>> with exp(v) = n/d, so that *)
(*     v = ln(n/d).  Adding two log-domain values multiplies the pairs,    *)
(*     negation swaps them, logsumexp adds them.  -inf is <<0,1>>, +inf is *)
(*     <<1,0>>, NaN is <<0,0>>, as IEEE arithmetic gives them;             *)
(*   - blur > 0 enters only through eps = blur^2 in -C_ij/eps.  With       *)
(*     integer coordinates 2*C_ij is an integer and                        *)
(*     exp(-C_ij/eps) = k^(2*C_ij) for k = exp(-1/(2*eps)), 0 < k < 1.     *)
(*     The model draws the blur through k, from the blurs whose k is       *)
(*     rational: blur = sqrt(1 / (2 ln(1/k)));                             *)
(*   - a value in cost units, eps * v, is the record [epslog |-> <<n,d>>]: *)
(*     eps * ln(n/d).  It is 0 iff n = d, and it equals a cost C iff       *)
(*     n/d = k^(-2C);                                                      *)
(*   - a finite value whose numerator or denominator exceeds MaxInt is     *)
(*     Unrep: finite, but outside the range the model computes in.         *)
(***************************************************************************)
EXTENDS Integers, Sequences, FiniteSets, TLC

\* ------------------------------------------------------------------ bounds
\* Total number of coordinates of the two point clouds in CostSpec.
MaxSize == 5
\* Largest coordinate of a point in CostSpec.
MaxCoord == 1
\* Total number of coordinates of the two point clouds in Spec.
MaxTotal == 4
\* Largest iteration count nits.
MaxNits == 2
\* Largest numerator or denominator of a value the model computes exactly.
MaxInt == 30000
\* Largest measured time of one solve, in timer ticks (BenchSpec).
MaxElapsed == 2

VARIABLES
    \* ---- sinkhorn_loop: arguments
    a_i, x_i, b_j, y_j, blur, nits, backend,
    \* ---- sinkhorn_loop: locals and position
    pc, loga_i, logb_j, C_ij, F_i, G_j, it,
    \* F after each F update, G after each G update (history, not read by the loop)
    F_hist, G_hist,
    \* what the call gave back: the returned pair, or the exception raised
    result, error,
    \* ---- full_benchmark / full_statistics
    \* the script's position and the arguments of the running full_benchmark call
    bpc, call, source, target, bblur, maxtime,
    \* its ground truth, how many times it was computed, the family being run
    ground_truth, gt_runs, family, refs,
    \* ---- benchmark_solvers: its budget, the next candidate, the configurations
    \* attempted so far, the last and the cumulative measured time, the stop rule
    budget, cand, attempted, elapsed, total, policy

svars == <<a_i, x_i, b_j, y_j, blur, nits, backend, pc, loga_i, logb_j, C_ij,
           F_i, G_j, it, F_hist, G_hist, result, error>>
bvars == <<bpc, call, source, target, bblur, maxtime, ground_truth, gt_runs,
           family, refs, budget, cand, attempted, elapsed, total, policy>>
vars == <<svars, bvars>>

\* A local that has not been assigned yet.
None == <<>>

\* ------------------------------------------------------------- arithmetic
Abs(n) == IF n < 0 THEN -n ELSE n

RECURSIVE GCD(_, _)
GCD(m, n) == IF n = 0 THEN m ELSE GCD(n, m % n)

\* The signed rational n/d (d > 0) in lowest terms.
QNorm(n, d) == LET g == GCD(Abs(n), d) IN <<n \div g, d \div g>>

QAdd(p, q) == QNorm(p[1] * q[2] + q[1] * p[2], p[2] * q[2])

RECURSIVE QSum(_)
QSum(s) == IF s = <<>> THEN <<0, 1>> ELSE QAdd(Head(s), QSum(Tail(s)))

RECURSIVE SumSeq(_)
SumSeq(s) == IF s = <<>> THEN 0 ELSE Head(s) + SumSeq(Tail(s))

\* Log-domain values, written in the exp domain.
NegInf == <<0, 1>>
PosInf == <<1, 0>>
NaN == <<0, 0>>
Unrep == <<-1, -1>>
Zero == <<1, 1>>

IsFinite(v) == v[1] > 0 /\ v[2] > 0
NonFinite(v) == v \in {NegInf, PosInf, NaN}

\* n/d in lowest terms for n, d >= 0; Unrep when finite and out of range.
ENorm(n, d) ==
    IF n = 0 /\ d = 0 THEN NaN
    ELSE LET g == GCD(n, d)
             p == n \div g
             q == d \div g
         IN IF p > MaxInt \/ q > MaxInt THEN Unrep ELSE <<p, q>>

\* u + v in the log domain (IEEE: -inf + inf = NaN, NaN absorbs).
LAdd(u, v) ==
    IF u = NaN \/ v = NaN THEN NaN
    ELSE IF u = Unrep THEN (IF NonFinite(v) THEN v ELSE Unrep)
    ELSE IF v = Unrep THEN (IF NonFinite(u) THEN u ELSE Unrep)
    ELSE ENorm(u[1] * v[1], u[2] * v[2])

\* -u in the log domain.
LNeg(u) == IF u = Unrep THEN Unrep ELSE <<u[2], u[1]>>

\* log(exp(u) + exp(v)).
LSE2(u, v) ==
    IF u = NaN \/ v = NaN THEN NaN
    ELSE IF u = PosInf \/ v = PosInf THEN PosInf
    ELSE IF u = Unrep \/ v = Unrep THEN Unrep
    ELSE ENorm(u[1] * v[2] + v[1] * u[2], u[2] * v[2])

\* torch.logsumexp over a non-empty sequence of log-domain values.
RECURSIVE LogSumExp(_)
LogSumExp(s) == IF Len(s) = 1 THEN s[1] ELSE LSE2(Head(s), LogSumExp(Tail(s)))

\* Tensor.log() of a weight: log(0) = -inf and log(w) = NaN for w < 0, no exception.
Log(w) == IF w[1] > 0 THEN <<w[1], w[2]>> ELSE IF w[1] = 0 THEN NegInf ELSE NaN

\* m * ln(k) for an integer m >= 0.
RECURSIVE LTimes(_, _)
LTimes(m, k) == IF m = 0 THEN Zero ELSE LAdd(k, LTimes(m - 1, k))

\* - C / eps for a cost C = <<n, d>> (d is 1 or 2), with k = exp(-1/(2 eps)) = blur.
NegCostOverEps(C, k) == LTimes(IF C[2] = 2 THEN C[1] ELSE 2 * C[1], k)

\* eps * v: from the log domain to cost units.
EpsTimes(v) == [epslog |-> v]

\* ------------------------------------------------------------ point clouds
\* A cloud is a sequence of N points, a point a sequence of D integer coordinates.
Dim(cloud) == Len(cloud[1])

Dot(p, q) == SumSeq([d \in 1..Len(p) |-> p[d] * q[d]])

\* The reference cost of the docstring: C(x,y) = 1/2 |x - y|^2 (same dimension).
HalfSqDist(p, q) == QNorm(SumSeq([d \in 1..Len(p) |-> (p[d] - q[d]) * (p[d] - q[d])]), 2)

\* ---- backend "pytorch" (lines 93-102)
D_xx(x) == [i \in 1..Len(x) |-> Dot(x[i], x[i])]
D_xy(x, y) == [i \in 1..Len(x) |-> [j \in 1..Len(y) |-> Dot(x[i], y[j])]]
D_yy(y) == [j \in 1..Len(y) |-> Dot(y[j], y[j])]

\* x_i @ y_j.t() is defined only for (N,D) @ (D,M); otherwise torch raises RuntimeError.
MatmulDefined(x, y) == Dim(x) = Dim(y)

\* Faulty variant of DenseCost: the halving applied to the whole expression,
\* (D_xx + D_yy - D_xy) / 2.
DenseCostHalvedDot(x, y) ==
    [i \in 1..Len(x) |-> [j \in 1..Len(y) |->
        QNorm(D_xx(x)[i] + D_yy(y)[j] - D_xy(x, y)[i][j], 2)]]

\* C_ij = (D_xx + D_yy) / 2 - D_xy
DenseCost(x, y) ==
    [i \in 1..Len(x) |-> [j \in 1..Len(y) |->
        QAdd(QNorm(D_xx(x)[i] + D_yy(y)[j], 2), <<-(D_xy(x, y)[i][j]), 1>>)]]

\* ---- backend "keops" (lines 89-91)
\* A LazyTensor binary operation takes operands of the same dimension, or one of
\* dimension 1, which it broadcasts; otherwise pykeops raises ValueError.
LazyDefined(x, y) == Dim(x) = Dim(y) \/ Dim(x) = 1 \/ Dim(y) = 1

Broadcast(p, D) == IF Len(p) = D THEN p ELSE [d \in 1..D |-> p[1]]

\* C_ij = ((x_i - y_j) ** 2).sum(-1) / 2
LazyCost(x, y) ==
    LET D == IF Dim(x) >= Dim(y) THEN Dim(x) ELSE Dim(y)
    IN [i \in 1..Len(x) |-> [j \in 1..Len(y) |->
           QNorm(SumSeq([d \in 1..D |->
                     (Broadcast(x[i], D)[d] - Broadcast(y[j], D)[d])
                   * (Broadcast(x[i], D)[d] - Broadcast(y[j], D)[d])]), 2)]]

\* ------------------------------------------------------ the Sinkhorn sweep
\* The reduction of one row.  torch.logsumexp gives the IEEE value.  The KeOps
\* reduction keeps a running (max, sum) pair and computes exp(x - max): with an
\* infinite or NaN entry that can be exp(inf - inf), so the row may come out NaN
\* instead, depending on the order the entries are reduced in.
RowResults(be, row) ==
    IF be = "keops" /\ \E n \in 1..Len(row) : NonFinite(row[n])
    THEN {LNeg(LogSumExp(row)), NaN}
    ELSE {LNeg(LogSumExp(row))}

\* Faulty variant of RowOfF: the log-weights left out of the reduction.
RowOfFNoWeights(C, k, G, logb, i) ==
    [j \in 1..Len(G) |-> LAdd(NegCostOverEps(C[i][j], k), G[j])]

\* - ( - C_ij / eps + (G_j + logb_j) ).logsumexp(dim=1): the entries of row i.
RowOfF(C, k, G, logb, i) ==
    [j \in 1..Len(G) |-> LAdd(NegCostOverEps(C[i][j], k), LAdd(G[j], logb[j]))]

\* Faulty variant of ColOfG: the cost with the wrong sign, + C_ij / eps.
ColOfGPlusCost(C, k, F, loga, j) ==
    [i \in 1..Len(F) |-> LAdd(LNeg(NegCostOverEps(C[i][j], k)), LAdd(F[i], loga[i]))]

\* - ( - C_ij / eps + (F_i + loga_i) ).logsumexp(dim=0): the entries of column j.
ColOfG(C, k, F, loga, j) ==
    [i \in 1..Len(F) |-> LAdd(NegCostOverEps(C[i][j], k), LAdd(F[i], loga[i]))]

\* The values line 110 can assign to F_i, and line 111 to G_j.
FUpdates(be, C, k, G, logb) ==
    LET N == Len(C)
        out(i) == RowResults(be, RowOfF(C, k, G, logb, i))
    IN {f \in [1..N -> UNION {out(i) : i \in 1..N}] : \A i \in 1..N : f[i] \in out(i)}

GUpdates(be, C, k, F, loga) ==
    LET M == Len(C[1])
        out(j) == RowResults(be, ColOfG(C, k, F, loga, j))
    IN {g \in [1..M -> UNION {out(j) : j \in 1..M}] : \A j \in 1..M : g[j] \in out(j)}

\* --------------------------------------------------- sinkhorn_loop: steps
\* Faulty variant of LogWeights: a checked logarithm that raises on a weight <= 0.
LogWeightsChecked ==
    /\ pc = "log"
    /\ IF \/ \E i \in 1..Len(a_i) : a_i[i][1] <= 0
          \/ \E j \in 1..Len(b_j) : b_j[j][1] <= 0
       THEN /\ pc' = "raised" /\ error' = "DomainError"
            /\ loga_i' = loga_i /\ logb_j' = logb_j
       ELSE /\ loga_i' = [i \in 1..Len(a_i) |-> Log(a_i[i])]
            /\ logb_j' = [j \in 1..Len(b_j) |-> Log(b_j[j])]
            /\ pc' = "cost" /\ error' = error
    /\ UNCHANGED <<a_i, x_i, b_j, y_j, blur, nits, backend, C_ij, F_i, G_j, it,
                   F_hist, G_hist, result, bvars>>

\* Line 85-86: loga_i, logb_j = a_i.log(), b_j.log()
LogWeights ==
    /\ pc = "log"
    /\ loga_i' = [i \in 1..Len(a_i) |-> Log(a_i[i])]
    /\ logb_j' = [j \in 1..Len(b_j) |-> Log(b_j[j])]
    /\ pc' = "cost"
    /\ UNCHANGED <<a_i, x_i, b_j, y_j, blur, nits, backend, C_ij, F_i, G_j, it,
                   F_hist, G_hist, result, error, bvars>>

\* Lines 89-91: the symbolic cost of the "keops" backend.
CostKeops ==
    /\ pc = "cost"
    /\ backend = "keops"
    /\ IF LazyDefined(x_i, y_j)
       THEN C_ij' = LazyCost(x_i, y_j) /\ pc' = "setup" /\ error' = error
       ELSE C_ij' = C_ij /\ pc' = "raised" /\ error' = "ValueError"
    /\ UNCHANGED <<a_i, x_i, b_j, y_j, blur, nits, backend, loga_i, logb_j, F_i, G_j,
                   it, F_hist, G_hist, result, bvars>>

\* Lines 93-102: the full cost matrix of the "pytorch" backend.
CostPytorch ==
    /\ pc = "cost"
    /\ backend = "pytorch"
    /\ IF MatmulDefined(x_i, y_j)
       THEN C_ij' = DenseCost(x_i, y_j) /\ pc' = "setup" /\ error' = error
       ELSE C_ij' = C_ij /\ pc' = "raised" /\ error' = "RuntimeError"
    /\ UNCHANGED <<a_i, x_i, b_j, y_j, blur, nits, backend, loga_i, logb_j, F_i, G_j,
                   it, F_hist, G_hist, result, bvars>>

\* Faulty variant of Setup: the potentials start from the log-weights instead of zeros.
SetupFromLogWeights ==
    /\ pc = "setup"
    /\ F_i' = loga_i
    /\ G_j' = logb_j
    /\ it' = 0
    /\ pc' = "loop"
    /\ UNCHANGED <<a_i, x_i, b_j, y_j, blur, nits, backend, loga_i, logb_j, C_ij,
                   F_hist, G_hist, result, error, bvars>>

\* Lines 105-106: F_i, G_j = torch.zeros_like(loga_i), torch.zeros_like(logb_j)
Setup ==
    /\ pc = "setup"
    /\ F_i' = [i \in 1..Len(loga_i) |-> Zero]
    /\ G_j' = [j \in 1..Len(logb_j) |-> Zero]
    /\ it' = 0
    /\ pc' = "loop"
    /\ UNCHANGED <<a_i, x_i, b_j, y_j, blur, nits, backend, loga_i, logb_j, C_ij,
                   F_hist, G_hist, result, error, bvars>>

\* Line 110, one pass of "for _ in range(nits)".
FUpdate ==
    /\ pc = "loop"
    /\ it < nits
    /\ F_i' \in FUpdates(backend, C_ij, blur, G_j, logb_j)
    /\ F_hist' = Append(F_hist, F_i')
    /\ pc' = "half"
    /\ UNCHANGED <<a_i, x_i, b_j, y_j, blur, nits, backend, loga_i, logb_j, C_ij,
                   G_j, it, G_hist, result, error, bvars>>

\* Faulty variant of GUpdate: a simultaneous update, G computed from the F of the
\* previous sweep.
GUpdateSimultaneous ==
    /\ pc = "half"
    /\ G_j' \in GUpdates(backend, C_ij, blur,
                         IF it = 0 THEN [i \in 1..Len(F_i) |-> Zero] ELSE F_hist[it],
                         loga_i)
    /\ G_hist' = Append(G_hist, G_j')
    /\ it' = it + 1
    /\ pc' = "loop"
    /\ UNCHANGED <<a_i, x_i, b_j, y_j, blur, nits, backend, loga_i, logb_j, C_ij,
                   F_i, F_hist, result, error, bvars>>

\* Line 111, then back to the head of the loop.
GUpdate ==
    /\ pc = "half"
    /\ G_j' \in GUpdates(backend, C_ij, blur, F_i, loga_i)
    /\ G_hist' = Append(G_hist, G_j')
    /\ it' = it + 1
    /\ pc' = "loop"
    /\ UNCHANGED <<a_i, x_i, b_j, y_j, blur, nits, backend, loga_i, logb_j, C_ij,
                   F_i, F_hist, result, error, bvars>>

\* Faulty variant of Return: the loop also exits as soon as a potential is not finite.
ReturnOnNonFinite ==
    /\ pc = "loop"
    /\ \/ it = nits
       \/ it >= 1 /\ \E i \in 1..Len(F_i) : NonFinite(F_i[i])
    /\ result' = <<[i \in 1..Len(F_i) |-> EpsTimes(F_i[i])],
                   [j \in 1..Len(G_j) |-> EpsTimes(G_j[j])]>>
    /\ pc' = "done"
    /\ UNCHANGED <<a_i, x_i, b_j, y_j, blur, nits, backend, loga_i, logb_j, C_ij,
                   F_i, G_j, it, F_hist, G_hist, error, bvars>>

\* Line 114, reached when range(nits) is exhausted: return eps * F_i, eps * G_j
Return ==
    /\ pc = "loop"
    /\ it = nits
    /\ result' = <<[i \in 1..Len(F_i) |-> EpsTimes(F_i[i])],
                   [j \in 1..Len(G_j) |-> EpsTimes(G_j[j])]>>
    /\ pc' = "done"
    /\ UNCHANGED <<a_i, x_i, b_j, y_j, blur, nits, backend, loga_i, logb_j, C_ij,
                   F_i, G_j, it, F_hist, G_hist, error, bvars>>

\* ------------------------------------------------------------- the inputs
Backends == {"keops", "pytorch"}

\* The blurs of the model, each given by k = exp(-1/(2 blur^2)).
KernelBases == {<<1, 2>>, <<1, 10>>}

\* The weights of a measure sum to 1.  Zero and negative entries are included:
\* the code never checks them.
WeightValues == {<<-1, 2>>, <<0, 1>>, <<1, 4>>, <<1, 2>>, <<3, 4>>, <<1, 1>>, <<3, 2>>}

Leq(p, q) == p[1] * q[2] <= q[1] * p[2]

WeightVectors(N) ==
    {w \in [1..N -> WeightValues] :
        /\ QSum(w) = <<1, 1>>
        /\ \A n \in 1..(N - 1) : Leq(w[n], w[n + 1])}

Clouds(N, D, coords) == [1..N -> [1..D -> coords]]

\* <<N, D1, M, D2>>: N points of dimension D1 against M points of dimension D2.
Shapes(size) ==
    {sh \in (1..size) \X (1..size) \X (1..size) \X (1..size) :
        sh[1] * sh[2] + sh[3] * sh[4] <= size}

\* The benchmark is not running.
BenchIdle ==
    /\ bpc = "idle" /\ call = 0 /\ source = 0 /\ target = 0 /\ bblur = 0
    /\ maxtime = 0 /\ ground_truth = None /\ gt_runs = 0 /\ family = 0 /\ refs = <<>>
    /\ budget = 0 /\ cand = 0 /\ attempted = <<>> /\ elapsed = 0 /\ total = 0
    /\ policy = "none"

Entry ==
    /\ pc = "log"
    /\ loga_i = None /\ logb_j = None /\ C_ij = None /\ F_i = None /\ G_j = None
    /\ it = 0 /\ F_hist = <<>> /\ G_hist = <<>> /\ result = None /\ error = "none"

\* sinkhorn_loop called on two weighted clouds.
Init ==
    /\ \E sh \in Shapes(MaxTotal) :
          /\ x_i \in Clouds(sh[1], sh[2], {0, 1})
          /\ a_i \in WeightVectors(sh[1])
          /\ y_j \in Clouds(sh[3], sh[4], {0, 1})
          /\ b_j \in WeightVectors(sh[3])
    /\ blur \in KernelBases
    /\ nits \in 0..MaxNits
    /\ backend \in Backends
    /\ Entry
    /\ BenchIdle

Next == LogWeights \/ CostKeops \/ CostPytorch \/ Setup \/ FUpdate \/ GUpdate \/ Return

Spec == Init /\ [][Next]_vars

\* The cost step alone, on clouds of every shape, with uniform weights.
CostInit ==
    /\ \E sh \in Shapes(MaxSize) :
          /\ x_i \in Clouds(sh[1], sh[2], 0..MaxCoord)
          /\ a_i = [i \in 1..sh[1] |-> <<1, sh[1]>>]
          /\ y_j \in Clouds(sh[3], sh[4], 0..MaxCoord)
          /\ b_j = [j \in 1..sh[3] |-> <<1, sh[3]>>]
    /\ blur = <<1, 2>>
    /\ nits = 0
    /\ backend \in Backends
    /\ Entry
    /\ BenchIdle

CostNext == LogWeights \/ CostKeops \/ CostPytorch

CostSpec == CostInit /\ [][CostNext]_vars

\* ------------------------------------------------------ the cost estimate
\* The dual objective <a,F> + <b,G> of the returned potentials.  With q the common
\* denominator of the weights, the value is [scale |-> q, epslog |-> E]:
\* q * (<a,F> + <b,G>) = eps * ln(E).
LCM(m, n) == (m * n) \div GCD(m, n)

RECURSIVE CommonDenominator(_)
CommonDenominator(w) == IF w = <<>> THEN 1 ELSE LCM(Head(w)[2], CommonDenominator(Tail(w)))

\* p * v for an integer p (IEEE: 0 * inf = NaN).
LScale(p, v) ==
    IF p = 0 THEN (IF NonFinite(v) THEN NaN ELSE Zero)
    ELSE IF p > 0 THEN LTimes(p, v) ELSE LNeg(LTimes(-p, v))

RECURSIVE LSum(_)
LSum(s) == IF s = <<>> THEN Zero ELSE LAdd(Head(s), LSum(Tail(s)))

DualObjective(a, F, b, G) ==
    LET q == CommonDenominator(a \o b)
    IN [scale |-> q,
        epslog |-> LAdd(LSum([i \in 1..Len(a) |-> LScale(a[i][1] * (q \div a[i][2]), F[i].epslog)]),
                        LSum([j \in 1..Len(b) |-> LScale(b[j][1] * (q \div b[j][2]), G[j].epslog)]))]

\* ------------------------------------------------------------- the claims
\* A value in cost units that is exactly 0: eps * ln(1).
IsZeroCost(c) == c.epslog = Zero

\* C1.  With nits = 0 the call returns all-zero potentials, one entry per source
\* point in F and one per target point in G, whatever the measures, the blur and
\* the backend.
C1_ZeroSweepsReturnZeroPotentials ==
    (pc = "done" /\ nits = 0) =>
        /\ Len(result[1]) = Len(x_i)
        /\ Len(result[2]) = Len(y_j)
        /\ \A i \in 1..Len(x_i) : IsZeroCost(result[1][i])
        /\ \A j \in 1..Len(y_j) : IsZeroCost(result[2][j])

C1_Witness ==
    /\ pc = "done" /\ nits = 0 /\ backend = "keops"
    /\ Len(x_i) = 2 /\ Len(y_j) = 1
    /\ a_i = <<(<<1, 4>>), (<<3, 4>>)>>

\* C2.  For clouds of the same dimension, the cost the backend computed is
\* 1/2 sum_d (x_i[d] - y_j[d])^2 at every (i, j), and the dense and the lazy
\* formula give the same matrix.
C2_DenseAndLazyCostAgree ==
    (pc = "setup" /\ Dim(x_i) = Dim(y_j)) =>
        /\ \A i \in 1..Len(x_i) : \A j \in 1..Len(y_j) :
               C_ij[i][j] = HalfSqDist(x_i[i], y_j[j])
        /\ DenseCost(x_i, y_j) = LazyCost(x_i, y_j)

C2_Witness ==
    /\ pc = "setup" /\ backend = "pytorch" /\ Dim(x_i) = 2 /\ Dim(y_j) = 2
    /\ \E i \in 1..Len(x_i) : \E j \in 1..Len(y_j) :
           Dot(x_i[i], y_j[j]) > 0 /\ C_ij[i][j] = <<1, 2>>

NonPositiveWeight ==
    \/ \E i \in 1..Len(a_i) : a_i[i][1] <= 0
    \/ \E j \in 1..Len(b_j) : b_j[j][1] <= 0

CostDefined == IF backend = "keops" THEN LazyDefined(x_i, y_j) ELSE MatmulDefined(x_i, y_j)

\* C3, as claimed.  A weight <= 0 makes the call fail with a DomainError at the
\* logarithm, before any sweep and without potentials.
C3_NonPositiveWeightRaises ==
    (pc # "log" /\ NonPositiveWeight) =>
        pc = "raised" /\ error = "DomainError" /\ F_hist = <<>> /\ result = None

\* C3, amended.  A weight <= 0 raises nothing at the logarithm: log gives -inf for
\* a zero weight and NaN for a negative one, the call goes on, fails only if the
\* cost of the backend is undefined for the two shapes, and otherwise runs its nits
\* sweeps and returns potentials.
C3_NonPositiveWeightPropagates ==
    (pc # "log" /\ NonPositiveWeight) =>
        /\ pc = "raised" => ~CostDefined
        /\ loga_i # None /\ logb_j # None
        /\ \A i \in 1..Len(a_i) :
               /\ a_i[i][1] = 0 => loga_i[i] = NegInf
               /\ a_i[i][1] < 0 => loga_i[i] = NaN
        /\ \A j \in 1..Len(b_j) :
               /\ b_j[j][1] = 0 => logb_j[j] = NegInf
               /\ b_j[j][1] < 0 => logb_j[j] = NaN
        /\ pc = "done" => Len(F_hist) = nits /\ result # None

C3_Witness ==
    /\ pc = "done" /\ nits = 2 /\ result # None
    /\ a_i = <<(<<0, 1>>), (<<1, 1>>)>>
    /\ \E j \in 1..Len(b_j) : b_j[j][1] < 0

\* C4.  Clouds of different dimensions make the cost step fail, in both backends
\* and for every pair of dimensions: no cost matrix, no potentials.
C4_DimensionMismatchRaises ==
    (pc \notin {"log", "cost"} /\ Dim(x_i) # Dim(y_j)) =>
        pc = "raised" /\ C_ij = None /\ result = None

SinglePoints ==
    /\ Len(x_i) = 1 /\ Len(y_j) = 1 /\ Dim(x_i) = Dim(y_j)
    /\ a_i = <<(<<1, 1>>)>> /\ b_j = <<(<<1, 1>>)>>

\* C in cost units, as eps * ln(k^(-2C)).
CostAsEpsLog(C, k) == LNeg(NegCostOverEps(C, k))

\* C7.  For one point of weight 1 against one point of weight 1, after any
\* nits >= 1 and for every blur, the returned potentials satisfy
\* F + G = 1/2 |x - y|^2, and so does the cost estimate <a,F> + <b,G>
\* (0.5 for x = 0, y = 1).
C7_SinglePointsReachExactCost ==
    (pc = "done" /\ SinglePoints /\ nits >= 1) =>
        LET f == result[1][1].epslog
            g == result[2][1].epslog
            c == CostAsEpsLog(HalfSqDist(x_i[1], y_j[1]), blur)
            est == DualObjective(a_i, result[1], b_j, result[2])
        IN  /\ IsFinite(f) /\ IsFinite(g)
            /\ LAdd(f, g) = c
            /\ est.scale = 1 /\ est.epslog = c

C7_Witness ==
    /\ pc = "done" /\ SinglePoints /\ nits = 2
    /\ x_i = <<(<<0>>)>> /\ y_j = <<(<<1>>)>>
    /\ HalfSqDist(x_i[1], y_j[1]) = <<1, 2>>
    /\ LAdd(result[1][1].epslog, result[2][1].epslog) = LNeg(blur)

\* The scenario of C8: A = B = weights [0.5, 0.5] at locations [0, 1].
TwoIdenticalPoints ==
    /\ x_i = <<(<<0>>), (<<1>>)>> /\ y_j = x_i
    /\ a_i = <<(<<1, 2>>), (<<1, 2>>)>> /\ b_j = a_i

\* e^0.2 < 1.2215 and e^(-0.2) > 0.8187.
ExpTwoTenthsAbove == <<12215, 10000>>
ExpMinusTwoTenthsBelow == <<8187, 10000>>

\* |cost| <= eps / 10 for an estimate of scale 2: e^(-0.2) <= E <= e^(0.2), taken
\* with the rational bounds above (anything within the tolerance passes).
\* eps / 10 is the 1e-3 of the claim at sigma = 0.1, eps = 0.01.
WithinTenthOfEps(est) ==
    /\ est.scale = 2
    /\ IsFinite(est.epslog)
    /\ Leq(est.epslog, ExpTwoTenthsAbove)
    /\ Leq(ExpMinusTwoTenthsBelow, est.epslog)

\* C8, as claimed.  For the two identical measures the cost estimate of the
\* returned potentials is within the tolerance of 0.
C8_IdenticalMeasuresCostNearZero ==
    (pc = "done" /\ TwoIdenticalPoints /\ nits >= 1) =>
        WithinTenthOfEps(DualObjective(a_i, result[1], b_j, result[2]))

\* C8, amended.  For the two identical measures, after any nits >= 1 and for every
\* blur, F_i = eps * ln(2 / (1 + k)) at both points and G = 0, k = exp(-1/(2 eps)):
\* the cost estimate is eps * ln(2 / (1 + k)), strictly between 0 and eps * ln 2.
C8_IdenticalMeasuresEntropicBias ==
    (pc = "done" /\ TwoIdenticalPoints /\ nits >= 1) =>
        LET bias == ENorm(2 * blur[2], blur[2] + blur[1])
            est == DualObjective(a_i, result[1], b_j, result[2])
        IN  /\ \A i \in 1..2 : result[1][i] = EpsTimes(bias)
            /\ \A j \in 1..2 : IsZeroCost(result[2][j])
            /\ est.scale = 2 /\ est.epslog = LAdd(bias, bias)
            /\ Leq(Zero, bias) /\ bias # Zero
            /\ Leq(bias, <<2, 1>>) /\ bias # <<2, 1>>

C8_Witness ==
    /\ pc = "done" /\ TwoIdenticalPoints /\ nits = 2 /\ blur = <<1, 10>>
    /\ result[1][1] = EpsTimes(<<20, 11>>)

ZeroPotential(n) == [m \in 1..n |-> Zero]

\* C9.  In every sweep k the F update reads the G of sweep k-1 (zeros for k = 1)
\* and the G update reads the F of the same sweep k; the two updates alternate,
\* F first.
C9_SweepsAlternate ==
    /\ pc = "half" => Len(F_hist) = Len(G_hist) + 1
    /\ pc \in {"loop", "done"} => Len(F_hist) = Len(G_hist)
    /\ \A k \in 1..Len(F_hist) :
           F_hist[k] \in FUpdates(backend, C_ij, blur,
                                  IF k = 1 THEN ZeroPotential(Len(y_j)) ELSE G_hist[k - 1],
                                  logb_j)
    /\ \A k \in 1..Len(G_hist) :
           G_hist[k] \in GUpdates(backend, C_ij, blur, F_hist[k], loga_i)

\* A second sweep whose G would have been different had it read the F of sweep 1.
C9_Witness ==
    /\ pc = "loop" /\ Len(G_hist) = 2 /\ backend = "pytorch"
    /\ G_hist[2] \notin GUpdates(backend, C_ij, blur, F_hist[1], loga_i)
    /\ G_hist[1] \notin GUpdates(backend, C_ij, blur, ZeroPotential(Len(x_i)), loga_i)

\* C10.  A call that returns has done exactly nits F updates and nits G updates,
\* whatever the values of the potentials, non-finite ones included; inside the
\* loop nothing is returned and nothing is raised, and each update has a value to
\* assign.
C10_ExactlyNitsSweeps ==
    /\ pc = "done" =>
           /\ it = nits /\ Len(F_hist) = nits /\ Len(G_hist) = nits
           /\ result = <<[i \in 1..Len(F_i) |-> EpsTimes(F_i[i])],
                         [j \in 1..Len(G_j) |-> EpsTimes(G_j[j])]>>
    /\ pc \in {"loop", "half"} =>
           /\ it <= nits /\ Len(G_hist) = it /\ result = None /\ error = "none"
           /\ (pc = "loop" /\ it < nits) =>
                  FUpdates(backend, C_ij, blur, G_j, logb_j) # {}
           /\ pc = "half" =>
                  it < nits /\ GUpdates(backend, C_ij, blur, F_i, loga_i) # {}

C10_Witness ==
    /\ pc = "done" /\ nits = MaxNits /\ Len(F_hist) = MaxNits
    /\ \E i \in 1..Len(F_i) : result[1][i].epslog = NaN
    /\ \E j \in 1..Len(G_j) : result[2][j].epslog = NaN

\* ================================================================ benchmark
\* maxtime=None (line 143), the default: no budget.
NoBudget == -1

\* Lines 324, 329, 334: the three calls of full_statistics, by the index of the
\* source in sources, of the target in targets, and the blur in hundredths.
CallSites ==
    << [source |-> 0, target |-> 0, blur |-> 10],
       [source |-> 0, target |-> 0, blur |-> 1],
       [source |-> 2, target |-> 2, blur |-> 1] >>

\* Lines 154 and 170: the families, in the order they are benchmarked.
Families == <<"multiscale-3", "multiscale-5", "online", "tensorized", "pytorch", "keops">>

\* Line 161: the scalings (in thousandths); line 172: the iteration counts.
Scalings == <<500, 600, 700, 800, 900, 950, 990>>
Iterations == <<5, 10, 20, 50, 100, 200, 500, 1000, 2000, 5000, 10000>>

OT_solvers(name) == IF name \in {"pytorch", "keops"} THEN Iterations ELSE Scalings

\* The cost the high-accuracy solver of lines 146-147 returns on two measures: a
\* value that is a function of the measures and the blur it was run on.
Reference(s, t, b) == [solver |-> "sinkhorn scaling=.999", source |-> s, target |-> t, blur |-> b]

\* Lines 214-215: full_statistics(source, target, blur, maxtime) calls full_benchmark.
CallFullStatistics ==
    /\ bpc = "script"
    /\ call < Len(CallSites)
    /\ call' = call + 1
    /\ source' = CallSites[call + 1].source
    /\ target' = CallSites[call + 1].target
    /\ bblur' = CallSites[call + 1].blur
    /\ ground_truth' = None /\ gt_runs' = 0 /\ refs' = <<>> /\ family' = 0
    /\ attempted' = <<>> /\ cand' = 0 /\ elapsed' = 0 /\ total' = 0
    /\ bpc' = "ground_truth"
    /\ UNCHANGED <<maxtime, budget, policy, svars>>

\* Lines 146-148: _, _, ground_truth = benchmark_solver(OT_solver, blur, sources[0], targets[0])
ComputeGroundTruth ==
    /\ bpc = "ground_truth"
    /\ ground_truth' = Reference(0, 0, bblur)
    /\ gt_runs' = gt_runs + 1
    /\ family' = 1
    /\ bpc' = "family"
    /\ UNCHANGED <<call, source, target, bblur, maxtime, refs, budget, cand, attempted,
                   elapsed, total, policy, svars>>

\* Faulty variant of StartFamily: maxtime is not passed on to benchmark_solvers.
StartFamilyNoBudget ==
    /\ bpc = "family"
    /\ family <= Len(Families)
    /\ refs' = Append(refs, [name |-> Families[family], source |-> source,
                             target |-> target, reference |-> ground_truth])
    /\ budget' = NoBudget
    /\ cand' = 1 /\ attempted' = <<>> /\ elapsed' = 0 /\ total' = 0
    /\ bpc' = "solving"
    /\ UNCHANGED <<call, source, target, bblur, maxtime, ground_truth, gt_runs, family,
                   policy, svars>>

\* Lines 163-165 and 174-176: benchmark_solvers(name, OT_solvers, source, target,
\* ground_truth, blur=blur, display=False, maxtime=maxtime) is entered.
StartFamily ==
    /\ bpc = "family"
    /\ family <= Len(Families)
    /\ refs' = Append(refs, [name |-> Families[family], source |-> source,
                             target |-> target, reference |-> ground_truth])
    /\ budget' = maxtime
    /\ cand' = 1 /\ attempted' = <<>> /\ elapsed' = 0 /\ total' = 0
    /\ bpc' = "solving"
    /\ UNCHANGED <<call, source, target, bblur, maxtime, ground_truth, gt_runs, family,
                   policy, svars>>

\* The harness stops once the measured time exceeds the budget: the time of the
\* last solve, or the cumulative time, as the harness measures it.
OverBudget ==
    /\ budget # NoBudget
    /\ attempted # <<>>
    /\ IF policy = "per_call" THEN elapsed > budget ELSE total > budget

\* The cumulative time, kept up to the first value above every budget of the model.
Cumulate(t, e) == IF t + e > MaxElapsed THEN MaxElapsed + 1 ELSE t + e

\* One candidate of the family is solved, timed and scored, in list order.
SolveCandidate ==
    /\ bpc = "solving"
    /\ cand <= Len(OT_solvers(Families[family]))
    /\ ~OverBudget
    /\ \E e \in 0..MaxElapsed :
          /\ elapsed' = e
          /\ total' = Cumulate(total, e)
    /\ attempted' = Append(attempted, cand)
    /\ cand' = cand + 1
    /\ UNCHANGED <<bpc, call, source, target, bblur, maxtime, ground_truth, gt_runs,
                   family, refs, budget, policy, svars>>

\* benchmark_solvers returns its triples: results[name] = ... ; the next family.
CollectFamily ==
    /\ bpc = "solving"
    /\ cand > Len(OT_solvers(Families[family])) \/ OverBudget
    /\ family' = family + 1
    /\ bpc' = "family"
    /\ UNCHANGED <<call, source, target, bblur, maxtime, ground_truth, gt_runs, refs,
                   budget, cand, attempted, elapsed, total, policy, svars>>

\* Line 178: return results, ground_truth
ReturnBenchmark ==
    /\ bpc = "family"
    /\ family > Len(Families)
    /\ bpc' = "script"
    /\ UNCHANGED <<call, source, target, bblur, maxtime, ground_truth, gt_runs, family,
                   refs, budget, cand, attempted, elapsed, total, policy, svars>>

\* sinkhorn_loop is not running.
SinkhornIdle ==
    /\ pc = "idle"
    /\ a_i = None /\ x_i = None /\ b_j = None /\ y_j = None
    /\ blur = None /\ nits = 0 /\ backend = "none"
    /\ loga_i = None /\ logb_j = None /\ C_ij = None /\ F_i = None /\ G_j = None
    /\ it = 0 /\ F_hist = <<>> /\ G_hist = <<>> /\ result = None /\ error = "none"

\* The script before its first call.  Line 322 sets maxtime to 1 or 100 seconds;
\* full_statistics and full_benchmark take any budget, or none.
BenchInit ==
    /\ bpc = "script" /\ call = 0 /\ source = 0 /\ target = 0 /\ bblur = 0
    /\ maxtime \in {NoBudget} \cup 0..MaxElapsed
    /\ policy \in {"per_call", "cumulative"}
    /\ ground_truth = None /\ gt_runs = 0 /\ family = 0 /\ refs = <<>>
    /\ budget = NoBudget /\ cand = 0 /\ attempted = <<>> /\ elapsed = 0 /\ total = 0
    /\ SinkhornIdle

BenchNext ==
    \/ CallFullStatistics \/ ComputeGroundTruth \/ StartFamily
    \/ SolveCandidate \/ CollectFamily \/ ReturnBenchmark

BenchSpec == BenchInit /\ [][BenchNext]_vars

\* full_benchmark has computed its ground truth.
GroundTruthKnown == bpc \in {"family", "solving"} \/ (bpc = "script" /\ call >= 1)

\* C5.  In every call the ground truth is computed once, on the call's own source,
\* target and blur, and it is the reference of every family, each solved on that
\* source and target.
C5_GroundTruthOnOwnMeasures ==
    GroundTruthKnown =>
        /\ gt_runs = 1
        /\ ground_truth = Reference(source, target, bblur)
        /\ \A n \in 1..Len(refs) :
               /\ refs[n].reference = ground_truth
               /\ refs[n].source = source /\ refs[n].target = target

\* benchmark_solvers has returned the triples of a family.
FamilyCollected == bpc = "family" /\ family >= 2

CollectedList == OT_solvers(Families[family - 1])

====
